---- MODULE Spec2Model ----
(***************************************************************************)
(* The import_aip management command of the Storage Service, the record    *)
(* store and the AIP storage locations it writes to, and the package       *)
(* download endpoints of the API.                                          *)
(*                                                                         *)
(* Strings the code slices, lower-cases or splits are sequences of         *)
(* one-character strings, so that the string operations are computed.     *)
(***************************************************************************)
EXTENDS Naturals, Sequences, FiniteSets, TLC

\* ------------------------------------------------------------- bounds
\* Concurrent invocations of the command (independent OS processes).
MaxRuns == 2

\* Recalls issued per tiered package before the model stops taking requests.
MaxRecalls == 2

Runs == 1..MaxRuns

\* ---------------------------------------------------------- constants
DEFAULT_AS_LOCATION == "default_AS_location"

UUID_1 == <<"e","0","a","4","1","9","3","4","-","c","1","d","7","-","4","5","b","a","-","9","a","9","5","-","a","7","5","3","1","c","0","6","3","e","d","1">>
UUID_2 == <<"6","a","e","b","d","b","2","4","-","1","b","6","b","-","4","1","a","b","-","b","4","a","3","-","d","f","9","a","7","3","7","2","6","a","3","4">>

METS_1 == <<"M","E","T","S",".","e","0","a","4","1","9","3","4","-","c","1","d","7","-","4","5","b","a","-","9","a","9","5","-","a","7","5","3","1","c","0","6","3","e","d","1",".","x","m","l">>
METS_2 == <<"M","E","T","S",".","6","a","e","b","d","b","2","4","-","1","b","6","b","-","4","1","a","b","-","b","4","a","3","-","d","f","9","a","7","3","7","2","6","a","3","4",".","x","m","l">>

\* ------------------------------------------------------ string helpers
RECURSIVE replace_hyphens(_)
\* uuid.replace("-", "")
replace_hyphens(s) ==
    IF s = <<>> THEN <<>>
    ELSE IF Head(s) = "-" THEN replace_hyphens(Tail(s))
         ELSE <<Head(s)>> \o replace_hyphens(Tail(s))

\* Python's s[i:j] on a sequence (0-based, end exclusive, clipped).
Slice(s, i, j) ==
    LET hi == IF j < Len(s) THEN j ELSE Len(s)
    IN  IF i >= hi THEN <<>> ELSE SubSeq(s, i + 1, hi)

RECURSIVE path_join(_)
\* os.path.join(*segments) for non-empty relative segments
path_join(segs) ==
    IF Len(segs) = 0 THEN <<>>
    ELSE IF Len(segs) = 1 THEN segs[1]
         ELSE segs[1] \o <<"/">> \o path_join(Tail(segs))

SEGMENT == 4

\* The number of 4-character chunks of a string of n characters.
Chunks(n) == (n + SEGMENT - 1) \div SEGMENT

\* Faulty variant: only whole groups of 4 characters become folder names.
uuid_to_path_whole_groups(uuid) ==
    LET u == replace_hyphens(uuid)
        path == [k \in 1..(Len(u) \div SEGMENT) |->
                    Slice(u, (k - 1) * SEGMENT, (k - 1) * SEGMENT + SEGMENT)]
    IN  path_join(path)

\* Every 4 characters of the UUID, hyphens removed, become a folder name.
uuid_to_path(uuid) ==
    LET u == replace_hyphens(uuid)
        path == [k \in 1..Chunks(Len(u)) |->
                    Slice(u, (k - 1) * SEGMENT, (k - 1) * SEGMENT + SEGMENT)]
    IN  path_join(path)

\* os.path.basename(aip_mets_path)[5:41]
get_aip_uuid(mets_name) == Slice(mets_name, 5, 41)

LowerChar(c) ==
    CASE c = "Y" -> "y"
      [] c = "E" -> "e"
      [] c = "S" -> "s"
      [] c = "N" -> "n"
      [] c = "O" -> "o"
      [] OTHER -> c

\* str.lower()
lower(s) == [i \in 1..Len(s) |-> LowerChar(s[i])]

\* What the user may type at the prompt.
Responses ==
    { <<"y">>, <<"Y">>, <<"y","e","s">>, <<"Y","e","s">>, <<"y","E","s">>,
      <<"Y","E","S">>, <<"n">>, <<"N","O">>, <<>>, <<"y","e">>,
      <<"y","e","s"," ">>, <<"y","e","s","y">> }

\* Faulty variant: any answer that starts with y confirms.
Confirms_startswith(user_response) ==
    Slice(lower(user_response), 0, 1) = <<"y">>

\* user_response.lower() in ('y', 'yes')
Confirms(user_response) ==
    lower(user_response) \in { <<"y">>, <<"y","e","s">> }

\* ----------------------------------------------------- the environment
\* Location rows of the record store (uuid, full_path).
Locations ==
    { [uuid |-> "loc-1", full_path |-> <<"/","l","1">>],
      [uuid |-> "loc-2", full_path |-> <<"/","l","2">>] }

\* Location uuids a caller may pass as --aip-storage-location.
LocationArgs == {"loc-1", "loc-2", "loc-x", DEFAULT_AS_LOCATION}

\* Pipeline rows of the record store, and what a caller may pass as
\* --pipeline ("" when the option is not given).
Pipelines == {"pipe-1"}
PipelineArgs == {"", "pipe-1", "pipe-x"}

\* The files of a bag, relative to its root.
TreeFiles == { <<"b","a","g","i","t",".","t","x","t">>, <<"m","a","n","i","f","e","s","t","-","m","d","5",".","t","x","t">> }

\* What lies at the paths a user may give as aip_path.  path: the path as
\* characters when it lies below a storage location (the last one: the
\* copy of an AIP where an earlier import stored it), empty for a path
\* outside the locations, whose content no step changes; kind: "none" (nothing
\* there), "file" or "dir"; targz: the name ends in .tar.gz; readable: tarfile
\* can open it; base: the base name of the directory, or of the root directory
\* inside the archive; bag: "none" (no bagit.txt), "invalid" or "valid";
\* mets: the names glob finds as data/METS*xml.
UserPaths ==
    { [name |-> "/tmp/missing", path |-> <<>>, kind |-> "none", targz |-> FALSE,
       readable |-> FALSE, base |-> <<"m","i","s","s","i","n","g">>, bag |-> "none", mets |-> <<>>],
      [name |-> "/tmp/aip.zip", path |-> <<>>, kind |-> "file", targz |-> FALSE,
       readable |-> TRUE, base |-> <<"a","i","p">>, bag |-> "valid", mets |-> <<METS_1>>],
      [name |-> "/tmp/broken.tar.gz", path |-> <<>>, kind |-> "file", targz |-> TRUE,
       readable |-> FALSE, base |-> <<"b","r","o","k","e","n">>, bag |-> "none", mets |-> <<>>],
      [name |-> "/tmp/nobag", path |-> <<>>, kind |-> "dir", targz |-> FALSE,
       readable |-> FALSE, base |-> <<"n","o","b","a","g">>, bag |-> "none", mets |-> <<METS_1>>],
      [name |-> "/tmp/invalid", path |-> <<>>, kind |-> "dir", targz |-> FALSE,
       readable |-> FALSE, base |-> <<"i","n","v","a","l","i","d">>, bag |-> "invalid", mets |-> <<METS_1>>],
      [name |-> "/tmp/nomets", path |-> <<>>, kind |-> "dir", targz |-> FALSE,
       readable |-> FALSE, base |-> <<"n","o","m","e","t","s">>, bag |-> "valid", mets |-> <<>>],
      [name |-> "/tmp/a.tar.gz", path |-> <<>>, kind |-> "file", targz |-> TRUE,
       readable |-> TRUE, base |-> <<"a">>, bag |-> "valid", mets |-> <<METS_1>>],
      [name |-> "/tmp/b", path |-> <<>>, kind |-> "dir", targz |-> FALSE,
       readable |-> FALSE, base |-> <<"b">>, bag |-> "valid", mets |-> <<METS_1>>],
      [name |-> "/tmp/c", path |-> <<>>, kind |-> "dir", targz |-> FALSE,
       readable |-> FALSE, base |-> <<"c">>, bag |-> "valid", mets |-> <<METS_2>>],
      [name |-> "/l1/e0a4/1934/c1d7/45ba/9a95/a753/1c06/3ed1/b",
       path |-> <<"/","l","1","/","e","0","a","4","/","1","9","3","4","/","c","1","d","7","/","4","5","b","a","/","9","a","9","5","/","a","7","5","3","/","1","c","0","6","/","3","e","d","1","/","b">>,
       kind |-> "dir", targz |-> FALSE,
       readable |-> FALSE, base |-> <<"b">>, bag |-> "valid", mets |-> <<METS_1>>] }

NoPath ==
    [name |-> "", path |-> <<>>, kind |-> "none", targz |-> FALSE, readable |-> FALSE,
     base |-> <<>>, bag |-> "none", mets |-> <<>>]

\* The account rsync runs as, and the archivematica account of getpwnam.
RunAccount == [pw_uid |-> "root", pw_gid |-> "root"]
ServiceAccount == [pw_uid |-> "archivematica-uid", pw_gid |-> "archivematica-gid"]

\* --------------------------------------------------------- path helpers
\* os.path.join(a, b) for a relative b
join(a, b) == a \o <<"/">> \o b

\* path lies strictly below directory d
IsUnder(path, d) ==
    /\ Len(path) > Len(d) + 1
    /\ SubSeq(path, 1, Len(d)) = d
    /\ path[Len(d) + 1] = "/"

\* d and the directories above it, down to but excluding root
Ancestors(d, root) ==
    { SubSeq(d, 1, k) : k \in { j \in (Len(root) + 1)..Len(d) :
                                   j = Len(d) \/ d[j + 1] = "/" } }

LocationByUuid(uuid) == CHOOSE l \in Locations : l.uuid = uuid

\* location.full_path joined with a package's current_path
FullPath(p) == join(LocationByUuid(p.current_location).full_path, p.current_path)

\* the files of the stored copy a package record points to
FilesOf(p, fs) == { f \in fs : IsUnder(f.path, FullPath(p)) }

\* ----------------------------------------------------------------- state
VARIABLES
    packages,   \* Package rows of the record store
    files,      \* files below the storage locations
    dirs,       \* directories below the storage locations
    frame,      \* each run's position in import_aip and its local variables
    n_save,     \* how many times each run has called save()
    report,     \* what each run has printed last, or died of
    tiered,     \* what the tiered backend holds of each of its packages
    retrieval,  \* each tiered package's retrieval request
    n_recall,   \* how many recalls were issued for each tiered package
    response,   \* the last response of the package API
    amdsec,     \* the children of the amdSec that mets_add_event is given
    sharded,    \* two identifiers and the paths uuid_to_path made of them
    tree,       \* the directories and files removedirs works on
    removed     \* the arguments of the last call of removedirs

disk == <<files, dirs>>
import == <<packages, files, dirs, frame, n_save, report>>
api == <<tiered, retrieval, n_recall, response>>
utils == <<amdsec, sharded, tree, removed>>
vars == <<packages, files, dirs, frame, n_save, report,
          tiered, retrieval, n_recall, response,
          amdsec, sharded, tree, removed>>

NoInst ==
    [pk |-> 0, uuid |-> <<>>, package_type |-> "", status |-> "",
     current_location |-> "", current_path |-> <<>>, origin_pipeline |-> ""]

\* The frame of a run that has not started or has ended.  prompted: the run
\* asked for confirmation; home_before: what lay at and below aip_new_home
\* when placement began.
NoFrame ==
    [pc |-> "idle", aip_path |-> NoPath, aip_uuid |-> <<>>, prompted |-> FALSE,
     user_response |-> <<>>,
     aip_storage_location |-> "", aip_model_inst |-> NoInst,
     home_before |-> {}]

NoReport == [status |-> "none", exc |-> "", step |-> ""]

\* A package stored earlier (pk 0) as location/uuid_to_path(uuid)/base.
Stored(uuid, location, base) ==
    [pk |-> 0, uuid |-> uuid, package_type |-> "AIP", status |-> "UPLOADED",
     current_location |-> location,
     current_path |-> join(uuid_to_path(uuid), base),
     origin_pipeline |-> "pipe-1"]

\* The files and directories of such a stored copy.
StoredFiles(p) ==
    { [path |-> join(FullPath(p), n), gen |-> 0,
       uid |-> ServiceAccount.pw_uid, gid |-> ServiceAccount.pw_gid] :
      n \in TreeFiles }

StoredDirs(p) ==
    { [path |-> d, uid |-> ServiceAccount.pw_uid, gid |-> ServiceAccount.pw_gid] :
      d \in Ancestors(FullPath(p), LocationByUuid(p.current_location).full_path) }

\* The rows the Settings table may hold for the default AIP storage location
\* when a run reads it (the command never writes the table).
SettingsStates ==
    { {},
      { [name |-> DEFAULT_AS_LOCATION, value |-> "loc-1"] },
      { [name |-> DEFAULT_AS_LOCATION, value |-> "loc-gone"] } }

\* The record store and the disk before any run: empty, or one package
\* stored earlier in one of the locations, or the record of a package that
\* was deleted (status DELETED, its files gone).
InitialPackages ==
    { {} } \cup { { Stored(UUID_1, l.uuid, <<"b">>) } : l \in Locations }
           \cup { { [Stored(UUID_1, "loc-1", <<"b">>) EXCEPT
                       !.status = "DELETED"] } }

\* The packages held on the tiered (tape) backend, and the API's endpoints.
TieredPackages == {"c0f8498f-b92e-4a8b-8941-1b34ba062ed8", "tiered-2"}
Endpoints == {"download", "extract_file"}

NoResponse ==
    [uuid |-> "", endpoint |-> "", status_code |-> 0, error |-> FALSE,
     body |-> FALSE]

\* No request has been made; every tiered package is on tape only.
ApiIdle ==
    /\ tiered = [p \in TieredPackages |-> "tape"]
    /\ retrieval = [p \in TieredPackages |-> "NONE"]
    /\ n_recall = [p \in TieredPackages |-> 0]
    /\ response = NoResponse

\* No utility function has been called.
UtilsIdle ==
    /\ amdsec = <<>>
    /\ sharded = [X |-> <<>>, Y |-> <<>>, path_X |-> <<>>, path_Y |-> <<>>]
    /\ tree = {}
    /\ removed = [relative_path |-> <<>>, base |-> <<>>, raised |-> FALSE,
                  calls |-> 0]

InitImport ==
    /\ ApiIdle
    /\ UtilsIdle
    /\ packages \in InitialPackages
    /\ files = UNION { StoredFiles(p) :
                         p \in { q \in packages : q.status # "DELETED" } }
    /\ dirs = UNION { StoredDirs(p) :
                        p \in { q \in packages : q.status # "DELETED" } }
    /\ frame = [r \in Runs |-> NoFrame]
    /\ n_save = [r \in Runs |-> 0]
    /\ report = [r \in Runs |-> NoReport]

\* ------------------------------------------------- how a run can end
\* The run goes on to `step` with its frame changed to `f`.
Goto(r, step, f) ==
    /\ frame' = [frame EXCEPT ![r] = [f EXCEPT !.pc = step]]
    /\ UNCHANGED report

End(r, how, rep) ==
    /\ frame' = [frame EXCEPT ![r] = [NoFrame EXCEPT !.pc = how]]
    /\ report' = [report EXCEPT ![r] = rep]

\* raise ImportAIPException: caught by handle, which prints fail(err)
Raise(r, step) ==
    End(r, "failed",
        [status |-> "failure", exc |-> "ImportAIPException", step |-> step])

\* any other exception leaves handle uncaught
Uncaught(r, exc, step) ==
    End(r, "crashed", [status |-> "uncaught", exc |-> exc, step |-> step])

\* print(okgreen('Successfully imported AIP ...'))
Succeed(r) ==
    End(r, "done", [status |-> "success", exc |-> "", step |-> "import_aip"])

\* ------------------------------------------------------------- import_aip
\* Command.handle: one invocation of the command with some aip_path.  Runs
\* are numbered in the order they start.
handle(r) ==
    /\ frame[r].pc = "idle"
    /\ r > 1 => frame[r - 1].pc # "idle"
    /\ \E p \in UserPaths :
          Goto(r, "confirm_aip_exists", [frame[r] EXCEPT !.aip_path = p])
    /\ UNCHANGED <<packages, disk, n_save, api, utils>>

\* os.path.exists(aip_path)
exists(aip_path) ==
    IF aip_path.path = <<>> THEN aip_path.kind # "none"
    ELSE \E e \in files \cup dirs : e.path = aip_path.path

\* the tree at aip_path is there with all its files
Intact(aip_path) ==
    aip_path.path # <<>> =>
       \A n \in TreeFiles : \E f \in files : f.path = join(aip_path.path, n)

confirm_aip_exists(r) ==
    /\ frame[r].pc = "confirm_aip_exists"
    /\ IF ~exists(frame[r].aip_path)
       THEN Raise(r, "confirm_aip_exists")
       ELSE Goto(r, "decompress_aip", frame[r])
    /\ UNCHANGED <<packages, disk, n_save, api, utils>>

\* decompress_aip and decompress: an archive is extracted into a fresh
\* temporary directory and aip_path becomes the root directory found there.
decompress_aip(r) ==
    LET aip_path == frame[r].aip_path
    IN  /\ frame[r].pc = "decompress_aip"
        /\ IF aip_path.kind = "file"
           THEN IF ~aip_path.targz
                THEN Raise(r, "decompress_aip")
                ELSE IF ~aip_path.readable
                     THEN Uncaught(r, "ReadError", "decompress_aip")
                     ELSE Goto(r, "validate",
                               [frame[r] EXCEPT !.aip_path.kind = "dir",
                                                !.aip_path.name = "/tmp/tmpdir"])
           ELSE Goto(r, "validate", frame[r])
        /\ UNCHANGED <<packages, disk, n_save, api, utils>>

\* Faulty variant: the result of bag.is_valid() is not looked at.
validate_unchecked(r) ==
    /\ frame[r].pc = "validate"
    /\ IF frame[r].aip_path.bag = "none" \/ ~Intact(frame[r].aip_path)
       THEN Uncaught(r, "BagError", "validate")
       ELSE Goto(r, "get_aip_mets_path", frame[r])
    /\ UNCHANGED <<packages, disk, n_save, api, utils>>

\* validate: bagit.Bag(aip_path) raises BagError on a tree without
\* bagit.txt; a bag that is not valid raises ImportAIPException.
validate(r) ==
    /\ frame[r].pc = "validate"
    /\ CASE frame[r].aip_path.bag = "none" \/ ~Intact(frame[r].aip_path) ->
              Uncaught(r, "BagError", "validate")
         [] frame[r].aip_path.bag = "invalid" -> Raise(r, "validate")
         [] OTHER -> Goto(r, "get_aip_mets_path", frame[r])
    /\ UNCHANGED <<packages, disk, n_save, api, utils>>

\* get_aip_mets_path, then get_aip_uuid on the first name found
get_aip_mets_path(r) ==
    LET aip_mets_path == frame[r].aip_path.mets
    IN  /\ frame[r].pc = "get_aip_mets_path"
        /\ IF aip_mets_path = <<>> \/ ~Intact(frame[r].aip_path)
           THEN Raise(r, "get_aip_mets_path")
           ELSE Goto(r, "check_if_aip_already_exists",
                     [frame[r] EXCEPT
                        !.aip_uuid = get_aip_uuid(aip_mets_path[1])])
        /\ UNCHANGED <<packages, disk, n_save, api, utils>>

\* models.Package.objects.filter(uuid=aip_uuid)
PackagesWithUuid(uuid) == { p \in packages : p.uuid = uuid }

\* check_if_aip_already_exists up to the prompt: with duplicates the user is
\* asked, without them the function returns.
check_if_aip_already_exists(r) ==
    LET duplicates == PackagesWithUuid(frame[r].aip_uuid)
    IN  /\ frame[r].pc = "check_if_aip_already_exists"
        /\ IF duplicates # {}
           THEN Goto(r, "raw_input", frame[r])
           ELSE Goto(r, "get_aip_storage_location", frame[r])
        /\ UNCHANGED <<packages, disk, n_save, api, utils>>

\* user_response = raw_input(prompt): the user types an answer
raw_input(r) ==
    /\ frame[r].pc = "raw_input"
    /\ \E typed \in Responses :
          Goto(r, "user_response",
               [frame[r] EXCEPT !.user_response = typed, !.prompted = TRUE])
    /\ UNCHANGED <<packages, disk, n_save, api, utils>>

\* Faulty variant: the confirmed answer deletes the duplicates at once.
user_response_deleting(r) ==
    /\ frame[r].pc = "user_response"
    /\ IF ~Confirms(frame[r].user_response)
       THEN Raise(r, "check_if_aip_already_exists") /\ UNCHANGED packages
       ELSE /\ packages' = packages \ PackagesWithUuid(frame[r].aip_uuid)
            /\ Goto(r, "get_aip_storage_location",
                    [frame[r] EXCEPT !.user_response = <<>>])
    /\ UNCHANGED <<disk, n_save, api, utils>>

\* if user_response.lower() not in ('y', 'yes'): raise ImportAIPException
user_response(r) ==
    /\ frame[r].pc = "user_response"
    /\ IF ~Confirms(frame[r].user_response)
       THEN Raise(r, "check_if_aip_already_exists")
       ELSE Goto(r, "get_aip_storage_location",
                 [frame[r] EXCEPT !.user_response = <<>>])
    /\ UNCHANGED <<packages, disk, n_save, api, utils>>

\* What get_aip_storage_location does with the identifier it is given: the
\* exception it raises ("" for none) and the uuid of the Location it returns.
ResolveLocation(aip_storage_location_uuid, settings) ==
    LET rows == { s \in settings : s.name = aip_storage_location_uuid }
        is_default == aip_storage_location_uuid = DEFAULT_AS_LOCATION
        uuid == IF is_default /\ rows # {}
                THEN (CHOOSE s \in rows : TRUE).value
                ELSE aip_storage_location_uuid
    IN  IF is_default /\ rows = {}
        THEN [exc |-> "DoesNotExist", uuid |-> ""]
        ELSE IF \E l \in Locations : l.uuid = uuid
             THEN [exc |-> "", uuid |-> uuid]
             ELSE [exc |-> "ImportAIPException", uuid |-> ""]

get_aip_storage_location(r) ==
    /\ frame[r].pc = "get_aip_storage_location"
    /\ \E arg \in LocationArgs, settings \in SettingsStates :
          LET res == ResolveLocation(arg, settings)
          IN  CASE res.exc = "DoesNotExist" ->
                     Uncaught(r, "DoesNotExist", "get_aip_storage_location")
                [] res.exc = "ImportAIPException" ->
                     Raise(r, "get_aip_storage_location")
                [] OTHER ->
                     Goto(r, "Package",
                          [frame[r] EXCEPT !.aip_storage_location = res.uuid])
    /\ UNCHANGED <<packages, disk, n_save, api, utils>>

\* get_pipeline: the exception it raises ("" for none) and the pipeline
get_pipeline(adoptive_pipeline_uuid) ==
    IF adoptive_pipeline_uuid # ""
    THEN IF adoptive_pipeline_uuid \in Pipelines
         THEN [exc |-> "", uuid |-> adoptive_pipeline_uuid]
         ELSE [exc |-> "ImportAIPException", uuid |-> ""]
    ELSE [exc |-> "", uuid |-> CHOOSE p \in Pipelines : TRUE]

\* Faulty variant: the instance is created in the store (objects.create) when built.
Package_create(r) ==
    /\ frame[r].pc = "Package"
    /\ \E arg \in PipelineArgs :
          LET res == get_pipeline(arg)
              inst == [pk |-> r, uuid |-> frame[r].aip_uuid,
                       package_type |-> "AIP", status |-> "UPLOADED",
                       current_location |-> frame[r].aip_storage_location,
                       current_path |-> <<>>, origin_pipeline |-> res.uuid]
          IN  IF res.exc # ""
              THEN Raise(r, "get_pipeline") /\ UNCHANGED packages
              ELSE /\ packages' = packages \cup {inst}
                   /\ Goto(r, "mkdir", [frame[r] EXCEPT !.aip_model_inst = inst])
    /\ UNCHANGED <<disk, n_save, api, utils>>

\* models.Package(...): the instance is built in memory, not saved.  The
\* primary key it gets when saved is the run's number.
Package(r) ==
    /\ frame[r].pc = "Package"
    /\ \E arg \in PipelineArgs :
          LET res == get_pipeline(arg)
          IN  IF res.exc # ""
              THEN Raise(r, "get_pipeline")
              ELSE Goto(r, "mkdir",
                        [frame[r] EXCEPT !.aip_model_inst =
                           [pk |-> r, uuid |-> frame[r].aip_uuid,
                            package_type |-> "AIP", status |-> "UPLOADED",
                            current_location |-> frame[r].aip_storage_location,
                            current_path |-> <<>>,
                            origin_pipeline |-> res.uuid]])
    /\ UNCHANGED <<packages, disk, n_save, api, utils>>

\* ------------------------------------- copy_aip_to_aip_storage_location
\* aip_new_home: the location's full path joined with uuid_to_path(uuid)
aip_new_home(r) ==
    join(LocationByUuid(frame[r].aip_storage_location).full_path,
         uuid_to_path(frame[r].aip_model_inst.uuid))

\* what lies at path or below it
At(path, entries) ==
    { e \in entries : e.path = path \/ IsUnder(e.path, path) }

\* shutil.rmtree(path): what is left of a set of files or directories
rmtree(path, entries) == entries \ At(path, entries)

\* os.makedirs(path) below a location root: the directories on the way that
\* do not exist are created, owned by the account the command runs as
makedirs(path, root, entries) ==
    entries \cup
    { [path |-> d, uid |-> RunAccount.pw_uid, gid |-> RunAccount.pw_gid] :
      d \in { a \in Ancestors(path, root) : \A e \in entries : e.path # a } }

\* mkdir(aip_new_home): makedirs fails on an existing aip_new_home, which
\* is then removed with all it holds and made again.
MkdirFiles(aip_new_home_, fs) ==
    IF \E e \in files \cup dirs : e.path = aip_new_home_
    THEN rmtree(aip_new_home_, fs)
    ELSE fs

\* mkdir(aip_new_home), and the assignment of current_path that follows it
mkdir(r) ==
    LET home == aip_new_home(r)
        root == LocationByUuid(frame[r].aip_storage_location).full_path
    IN  /\ frame[r].pc = "mkdir"
        /\ files' = MkdirFiles(home, files)
        /\ dirs' = makedirs(home, root, MkdirFiles(home, dirs))
        /\ Goto(r, "copy_rsync",
                [frame[r] EXCEPT
                   !.home_before = At(home, files \cup dirs),
                   !.aip_model_inst.current_path =
                      join(uuid_to_path(frame[r].aip_model_inst.uuid),
                           frame[r].aip_path.base)])
        /\ UNCHANGED <<packages, n_save, api, utils>>

\* rsync -r source/ destination: the files named by `names` arrive below
\* destination, replacing files of the same path.
Rsync(r, names, destination, fs) ==
    LET arrived == { [path |-> join(destination, n), gen |-> r,
                      uid |-> RunAccount.pw_uid, gid |-> RunAccount.pw_gid] :
                     n \in names }
    IN  { f \in fs : \A a \in arrived : a.path # f.path } \cup arrived

\* copy_rsync: rsync exits 0 with every file copied, or non-zero having
\* copied any part of the tree (with the destination directory made, or
\* not even that).  A source that is no longer there is not copied.
copy_rsync(r) ==
    LET root == LocationByUuid(frame[r].aip_storage_location).full_path
        destination == join(root, frame[r].aip_model_inst.current_path)
    IN  /\ frame[r].pc = "copy_rsync"
        /\ \/ /\ Intact(frame[r].aip_path)
              /\ files' = Rsync(r, TreeFiles, destination, files)
              /\ dirs' = makedirs(destination, root, dirs)
              /\ Goto(r, "fix_ownership", frame[r])
           \/ /\ \E copied \in SUBSET TreeFiles, made \in BOOLEAN :
                    /\ copied # {} => made /\ Intact(frame[r].aip_path)
                    /\ files' = Rsync(r, copied, destination, files)
                    /\ dirs' = IF made THEN makedirs(destination, root, dirs)
                               ELSE dirs
              /\ Raise(r, "copy_rsync")
        /\ UNCHANGED <<packages, n_save, api, utils>>

\* fix_ownership: every directory at or below <location>/<uuid[0:4]> gets
\* uid and gid of the archivematica account, every file below it the
\* account's uid as owner and as group.
fix_ownership(r) ==
    LET top == join(LocationByUuid(frame[r].aip_storage_location).full_path,
                    Slice(frame[r].aip_model_inst.uuid, 0, 4))
        am_uid == ServiceAccount.pw_uid
        am_gid == ServiceAccount.pw_gid
        Below(e) == e.path = top \/ IsUnder(e.path, top)
    IN  /\ frame[r].pc = "fix_ownership"
        /\ dirs' = { IF Below(d) THEN [d EXCEPT !.uid = am_uid, !.gid = am_gid]
                     ELSE d : d \in dirs }
        /\ files' = { IF Below(f) THEN [f EXCEPT !.uid = am_uid, !.gid = am_uid]
                      ELSE f : f \in files }
        /\ Goto(r, "save", frame[r])
        /\ UNCHANGED <<packages, n_save, api, utils>>

\* ------------------------------------------------ save_aip_model_instance
\* Model.save() of a new instance: an INSERT, refused with IntegrityError
\* when a row with the same uuid exists (the uuid column is unique).
Conflicts(inst) == \E p \in packages : p.uuid = inst.uuid

\* the first aip_model_inst.save()
save(r) ==
    /\ frame[r].pc = "save"
    /\ n_save' = [n_save EXCEPT ![r] = @ + 1]
    /\ IF Conflicts(frame[r].aip_model_inst)
       THEN Goto(r, "delete", frame[r]) /\ UNCHANGED packages
       ELSE /\ packages' = packages \cup {frame[r].aip_model_inst}
            /\ Succeed(r)
    /\ UNCHANGED <<disk, api, utils>>

\* Faulty variant: the delete filters on the unsaved instance's primary key.
delete_by_pk(r) ==
    /\ frame[r].pc = "delete"
    /\ packages' = packages \ { p \in packages : p = frame[r].aip_model_inst }
    /\ Goto(r, "retry", frame[r])
    /\ UNCHANGED <<disk, n_save, api, utils>>

\* except IntegrityError: Package.objects.filter(uuid=...).delete()
delete(r) ==
    /\ frame[r].pc = "delete"
    /\ packages' = packages \ PackagesWithUuid(frame[r].aip_model_inst.uuid)
    /\ Goto(r, "retry", frame[r])
    /\ UNCHANGED <<disk, n_save, api, utils>>

\* the second aip_model_inst.save(), outside any try
retry(r) ==
    /\ frame[r].pc = "retry"
    /\ n_save' = [n_save EXCEPT ![r] = @ + 1]
    /\ IF Conflicts(frame[r].aip_model_inst)
       THEN Uncaught(r, "IntegrityError", "save_aip_model_instance")
            /\ UNCHANGED packages
       ELSE /\ packages' = packages \cup {frame[r].aip_model_inst}
            /\ Succeed(r)
    /\ UNCHANGED <<disk, api, utils>>

\* ------------------------------------------------------ package API
\* Faulty variant: a backend error is answered like content that is on tape.
Respond_error_as_pending(p, endpoint) ==
    IF tiered[p] = "local"
    THEN /\ response' = [uuid |-> p, endpoint |-> endpoint,
                         status_code |-> 200, error |-> FALSE, body |-> TRUE]
         /\ retrieval' = [retrieval EXCEPT ![p] = "AVAILABLE"]
         /\ UNCHANGED n_recall
    ELSE /\ response' = [uuid |-> p, endpoint |-> endpoint,
                         status_code |-> 202, error |-> FALSE, body |-> FALSE]
         /\ retrieval' = [retrieval EXCEPT ![p] = "PENDING"]
         /\ n_recall' = [n_recall EXCEPT ![p] =
                            IF retrieval[p] = "PENDING" THEN @ ELSE @ + 1]

\* Faulty variant: every request for content on tape issues a recall.
Respond_recall_again(p, endpoint) ==
    CASE tiered[p] = "error" ->
           /\ response' = [uuid |-> p, endpoint |-> endpoint,
                           status_code |-> 502, error |-> TRUE, body |-> FALSE]
           /\ retrieval' = [retrieval EXCEPT ![p] = "FAILED"]
           /\ UNCHANGED n_recall
      [] tiered[p] = "tape" ->
           /\ response' = [uuid |-> p, endpoint |-> endpoint,
                           status_code |-> 202, error |-> FALSE, body |-> FALSE]
           /\ retrieval' = [retrieval EXCEPT ![p] = "PENDING"]
           /\ n_recall' = [n_recall EXCEPT ![p] = @ + 1]
      [] OTHER ->
           /\ response' = [uuid |-> p, endpoint |-> endpoint,
                           status_code |-> 200, error |-> FALSE, body |-> TRUE]
           /\ retrieval' = [retrieval EXCEPT ![p] = "AVAILABLE"]
           /\ UNCHANGED n_recall

\* GET /api/v2/file/<uuid>/download/ and .../extract_file/ for a package
\* on the tiered backend.  The backend's answer decides the response: an
\* error is a 502 with error=true; content not locally available is a 202
\* with error=false, a recall being issued unless one is pending; locally
\* available content is served as a 200 with a body.
Respond(p, endpoint) ==
    CASE tiered[p] = "error" ->
           /\ response' = [uuid |-> p, endpoint |-> endpoint,
                           status_code |-> 502, error |-> TRUE, body |-> FALSE]
           /\ retrieval' = [retrieval EXCEPT ![p] = "FAILED"]
           /\ UNCHANGED n_recall
      [] tiered[p] = "tape" ->
           /\ response' = [uuid |-> p, endpoint |-> endpoint,
                           status_code |-> 202, error |-> FALSE, body |-> FALSE]
           /\ retrieval' = [retrieval EXCEPT ![p] = "PENDING"]
           /\ n_recall' = [n_recall EXCEPT ![p] =
                              IF retrieval[p] = "PENDING" THEN @ ELSE @ + 1]
      [] OTHER ->
           /\ response' = [uuid |-> p, endpoint |-> endpoint,
                           status_code |-> 200, error |-> FALSE, body |-> TRUE]
           /\ retrieval' = [retrieval EXCEPT ![p] = "AVAILABLE"]
           /\ UNCHANGED n_recall

\* a request that would issue a recall is taken while recalls are left
MayRequest(p) ==
    (tiered[p] = "tape" /\ retrieval[p] # "PENDING") => n_recall[p] < MaxRecalls

download(p) ==
    /\ MayRequest(p)
    /\ Respond(p, "download")
    /\ UNCHANGED <<tiered, import, utils>>

extract_file(p) ==
    /\ MayRequest(p)
    /\ Respond(p, "extract_file")
    /\ UNCHANGED <<tiered, import, utils>>

\* The backend brings recalled content back from tape.
backend_recalls(p) ==
    /\ tiered[p] = "tape" /\ retrieval[p] = "PENDING"
    /\ tiered' = [tiered EXCEPT ![p] = "local"]
    /\ UNCHANGED <<retrieval, n_recall, response, import, utils>>

\* The backend starts to answer with an error.
backend_fails(p) ==
    /\ tiered[p] # "error"
    /\ tiered' = [tiered EXCEPT ![p] = "error"]
    /\ UNCHANGED <<retrieval, n_recall, response, import, utils>>

\* The backend answers again, the content on tape only.
backend_recovers(p) ==
    /\ tiered[p] = "error"
    /\ tiered' = [tiered EXCEPT ![p] = "tape"]
    /\ UNCHANGED <<retrieval, n_recall, response, import, utils>>

\* The backend drops its local copy; the content stays on tape.
backend_evicts(p) ==
    /\ tiered[p] = "local"
    /\ tiered' = [tiered EXCEPT ![p] = "tape"]
    /\ UNCHANGED <<retrieval, n_recall, response, import, utils>>

\* -------------------------------------------------- provenance events
\* Calls of mets_add_event on one amdSec.
MaxEvents == 6

NSMAP == [mets |-> "http://www.loc.gov/METS/", premis |-> "info:lc/xmlns/premis-v2"]

\* 'Archivematica Storage Service-%s' % ss_version
storage_service_agent == "Archivematica Storage Service-ss_version"

\* What a caller may pass as event_type, and what uuid.uuid4() may return.
EventTypes == {"reingestion", "deletion"}
EventUuids == {"uuid4-a", "uuid4-b"}

Digit(d) ==
    CASE d = 0 -> "0" [] d = 1 -> "1" [] d = 2 -> "2" [] d = 3 -> "3"
      [] d = 4 -> "4" [] d = 5 -> "5" [] d = 6 -> "6" [] d = 7 -> "7"
      [] d = 8 -> "8" [] OTHER -> "9"

RECURSIVE decimal(_)
\* '{}'.format(n) of a non-negative integer
decimal(n) ==
    IF n < 10 THEN <<Digit(n)>>
    ELSE decimal(n \div 10) \o <<Digit(n % 10)>>

\* 'digiprovMD_{}'.format(len(amdsec))
digiprov_id(xml) ==
    <<"d","i","g","i","p","r","o","v","M","D","_">> \o decimal(Len(xml))

\* mets_event: a mets:digiprovMD that wraps a premis:event.  Elements are
\* records; ns is the namespace of the element and of the children the same
\* ElementMaker made.
mets_event(digiprov_id_, event_type, event_detail, event_outcome_detail_note, event_uuid) ==
    [ns |-> NSMAP.mets, tag |-> "digiprovMD", ID |-> digiprov_id_,
     MDTYPE |-> "PREMIS:EVENT",
     xmlData |->
       [ns |-> NSMAP.premis, tag |-> "event",
        eventIdentifierValue |-> event_uuid,
        eventType |-> event_type,
        eventDetail |-> event_detail,
        eventOutcomeDetailNote |-> event_outcome_detail_note,
        linkingAgentIdentifier |->
          [ns |-> NSMAP.premis,
           linkingAgentIdentifierType |-> "storage service",
           linkingAgentIdentifierValue |-> storage_service_agent]]]

\* xml.xpath(".//mets:agentIdentifier[mets:agentIdentifierType='{}' and
\* mets:agentIdentifierValue='{}']"): the agentIdentifier elements of the
\* METS namespace below xml whose two children, of the METS namespace too,
\* have these texts.
xpath_agentIdentifier(xml, agent_type, agent_value) ==
    { i \in DOMAIN xml :
         /\ xml[i].MDTYPE = "PREMIS:AGENT"
         /\ xml[i].xmlData.agentIdentifier.ns = NSMAP.mets
         /\ xml[i].xmlData.agentIdentifier.agentIdentifierType = agent_type
         /\ xml[i].xmlData.agentIdentifier.agentIdentifierValue = agent_value }

\* mets_ss_agent: the sequence of the one mets:digiprovMD that wraps a
\* premis:agent, or the empty sequence where the function returns None.
mets_ss_agent(xml, digiprov_id_) ==
    LET agent_value == storage_service_agent
        agent_type == "storage service"
        existing_agent == xpath_agentIdentifier(xml, agent_type, agent_value)
    IN  IF existing_agent # {}
        THEN <<>>
        ELSE << [ns |-> NSMAP.mets, tag |-> "digiprovMD", ID |-> digiprov_id_,
                 MDTYPE |-> "PREMIS:AGENT",
                 xmlData |->
                   [ns |-> NSMAP.premis, tag |-> "agent",
                    agentIdentifier |->
                      [ns |-> NSMAP.premis,
                       agentIdentifierType |-> agent_type,
                       agentIdentifierValue |-> agent_value],
                    agentName |-> "Archivematica Storage Service",
                    agentType |-> "software"]] >>

\* the PREMIS:EVENT children of an amdSec
Events(xml) == { i \in DOMAIN xml : xml[i].MDTYPE = "PREMIS:EVENT" }

\* Faulty variant: the ID computed for the event is used for the agent too.
mets_add_event_one_id(event_type, event_uuid) ==
    LET id == digiprov_id(amdsec)
        event == mets_event(id, event_type, "", "", event_uuid)
        with_event == Append(amdsec, event)
    IN  /\ Cardinality(Events(amdsec)) < MaxEvents
        /\ amdsec' = with_event \o mets_ss_agent(with_event, id)
        /\ UNCHANGED <<import, api, sharded, tree, removed>>

\* mets_add_event(amdsec, event_type): the event is appended, then the
\* agent unless mets_ss_agent returned None.
mets_add_event(event_type, event_uuid) ==
    LET event == mets_event(digiprov_id(amdsec), event_type, "", "", event_uuid)
        with_event == Append(amdsec, event)
        digiprov_agent == mets_ss_agent(with_event, digiprov_id(with_event))
    IN  /\ Cardinality(Events(amdsec)) < MaxEvents
        /\ amdsec' = with_event \o digiprov_agent
        /\ UNCHANGED <<import, api, sharded, tree, removed>>

\* ------------------------------------------------------- uuid_to_path
\* the UUID's 32 hexadecimal digits without the hyphens (UUID.hex)
UUID_1_hex == <<"e","0","a","4","1","9","3","4","c","1","d","7","4","5","b","a","9","a","9","5","a","7","5","3","1","c","0","6","3","e","d","1">>

\* a UUID that differs from UUID_1 in its last character
UUID_3 == <<"e","0","a","4","1","9","3","4","-","c","1","d","7","-","4","5","b","a","-","9","a","9","5","-","a","7","5","3","1","c","0","6","3","e","d","2">>

\* The identifiers uuid_to_path is applied to: UUIDs in canonical form, one
\* as 32 digits, and short strings of letters and hyphens.
Identifiers ==
    { UUID_1, UUID_2, UUID_3, UUID_1_hex,
      <<"a","b","c","d","-","e","f","g","h">>,
      <<"a","b","c","d","e","f","g","h">>,
      <<"a","b","-","c","d","e","f","g","h">>,
      <<"a","b","c","d","e">>,
      <<"a","b","c","d","f">>,
      <<"a","b","c","d">>,
      <<"a">> }

NotSharded == [X |-> <<>>, Y |-> <<>>, path_X |-> <<>>, path_Y |-> <<>>]

\* uuid_to_path applied to the two identifiers
shard ==
    /\ sharded.path_X = <<>>
    /\ sharded' = [sharded EXCEPT !.path_X = uuid_to_path(sharded.X),
                                  !.path_Y = uuid_to_path(sharded.Y)]
    /\ UNCHANGED <<import, api, amdsec, tree, removed>>

\* --------------------------------------------------------- removedirs
\* Calls of removedirs on one tree.
MaxRemovedirs == 2

\* the index of the last "/" of p, 0 when it has none (str.rfind + 1)
rfind_sep(p) ==
    LET at == { i \in 1..Len(p) : p[i] = "/" }
    IN  IF at = {} THEN 0 ELSE CHOOSE i \in at : \A j \in at : j <= i

RECURSIVE rstrip_sep(_)
\* p.rstrip('/')
rstrip_sep(p) ==
    IF p # <<>> /\ p[Len(p)] = "/" THEN rstrip_sep(SubSeq(p, 1, Len(p) - 1))
    ELSE p

\* os.path.split(p): <<head, tail>>
split(p) ==
    LET i == rfind_sep(p)
        head == SubSeq(p, 1, i)
        tail == SubSeq(p, i + 1, Len(p))
    IN  << IF head # <<>> /\ \E k \in 1..Len(head) : head[k] # "/"
           THEN rstrip_sep(head) ELSE head,
           tail >>

\* os.path.join(a, b)
os_path_join(a, b) ==
    IF b # <<>> /\ b[1] = "/" THEN b
    ELSE IF a = <<>> \/ a[Len(a)] = "/" THEN a \o b
         ELSE a \o <<"/">> \o b

\* os.rmdir(path) on the directories and files of t: whether it succeeds,
\* and what is left.  It removes an empty directory and fails on a missing
\* one, on a file, on a directory that holds something and on a last
\* component "."; slashes at the end of the path are ignored.
rmdir(path, t) ==
    LET p == rstrip_sep(path)
        dot == Len(p) >= 2 /\ SubSeq(p, Len(p) - 1, Len(p)) = <<"/", ".">>
        found == { e \in t : e.path = p /\ e.kind = "dir" }
        ok == /\ ~dot
              /\ found # {}
              /\ ~ \E e \in t : IsUnder(e.path, p)
    IN  [ok |-> ok, t |-> IF ok THEN t \ found ELSE t]

RECURSIVE rmdir_heads(_, _, _, _)
\* while head and tail: rmdir(join(base, head)), break on os.error
rmdir_heads(head, tail, base, t) ==
    IF head # <<>> /\ tail # <<>>
    THEN LET res == rmdir(os_path_join(base, head), t)
         IN  IF ~res.ok THEN t
             ELSE rmdir_heads(split(head)[1], split(head)[2], base, res.t)
    ELSE t

\* os.removedirs(name) in the working directory cwd: the leaf must go, or
\* os.error is raised; then the parents go while they can.
os_removedirs(name, cwd, t) ==
    LET res == rmdir(os_path_join(cwd, name), t)
        ht == IF split(name)[2] = <<>> THEN split(split(name)[1]) ELSE split(name)
    IN  IF ~res.ok THEN [raised |-> TRUE, t |-> t]
        ELSE [raised |-> FALSE, t |-> rmdir_heads(ht[1], ht[2], cwd, res.t)]

\* The trees removedirs is applied to: directories (some of them holding a
\* file) below /s, and a directory /o that no base contains.
Trees ==
    { { [path |-> <<"/","s">>, kind |-> "dir"],
        [path |-> <<"/","s","/","a">>, kind |-> "dir"],
        [path |-> <<"/","s","/","a","/","b">>, kind |-> "dir"],
        [path |-> <<"/","s","/","a","/","b","/","c">>, kind |-> "dir"],
        [path |-> <<"/","o">>, kind |-> "dir"],
        [path |-> <<"/","o","/","a">>, kind |-> "dir"] },
      { [path |-> <<"/","s">>, kind |-> "dir"],
        [path |-> <<"/","s","/","a">>, kind |-> "dir"],
        [path |-> <<"/","s","/","a","/","b">>, kind |-> "dir"],
        [path |-> <<"/","s","/","a","/","b","/","c">>, kind |-> "dir"],
        [path |-> <<"/","s","/","a","/","b","/","f">>, kind |-> "file"],
        [path |-> <<"/","o">>, kind |-> "dir"],
        [path |-> <<"/","o","/","a">>, kind |-> "dir"] },
      { [path |-> <<"/","s">>, kind |-> "dir"],
        [path |-> <<"/","s","/","a">>, kind |-> "dir"],
        [path |-> <<"/","s","/","a","/","b">>, kind |-> "dir"],
        [path |-> <<"/","s","/","a","/","b","/","c">>, kind |-> "dir"],
        [path |-> <<"/","s","/","e">>, kind |-> "dir"],
        [path |-> <<"/","o">>, kind |-> "dir"],
        [path |-> <<"/","o","/","a">>, kind |-> "dir"] },
      { [path |-> <<"/","s">>, kind |-> "dir"],
        [path |-> <<"/","o">>, kind |-> "dir"],
        [path |-> <<"/","o","/","a">>, kind |-> "dir"] },
      { [path |-> <<"/","s">>, kind |-> "dir"],
        [path |-> <<"/","s","/","a">>, kind |-> "dir"],
        [path |-> <<"/","o">>, kind |-> "dir"],
        [path |-> <<"/","o","/","a">>, kind |-> "dir"] },
      { [path |-> <<"/","s">>, kind |-> "dir"],
        [path |-> <<"/","s","/","a">>, kind |-> "dir"],
        [path |-> <<"/","s","/","a","/","b">>, kind |-> "dir"],
        [path |-> <<"/","s","/","a","/","b","/","c">>, kind |-> "dir"],
        [path |-> <<"/","s","/","a","/","b","/","c","/","g">>, kind |-> "file"],
        [path |-> <<"/","o">>, kind |-> "dir"],
        [path |-> <<"/","o","/","a">>, kind |-> "dir"] } }

\* What a caller may pass as relative_path and as base ("" for no base).
RelativePaths ==
    { <<"a","/","b","/","c">>,
      <<"a","/","b">>,
      <<"a","/","b","/">>,
      <<"a">>,
      <<"a","/","x">>,
      <<"a","/","b","/","f">>,
      <<"b","/","c">>,
      <<>> }
Bases == { <<"/","s">>, <<"/","s","/","a">>, <<>> }

\* the process's working directory
Cwd == <<"/","o">>

NotRemoved ==
    [relative_path |-> <<>>, base |-> <<>>, raised |-> FALSE, calls |-> 0]

\* removedirs(relative_path, base): without a base it is os.removedirs;
\* with one, the leaf is removed if it can be, then the directories above
\* it that relative_path names, from the bottom up, until one cannot be.
removedirs(relative_path, base) ==
    LET ht == IF split(relative_path)[2] = <<>>
              THEN split(split(relative_path)[1])
              ELSE split(relative_path)
        res == IF base = <<>>
               THEN os_removedirs(relative_path, Cwd, tree)
               ELSE [raised |-> FALSE,
                     t |-> rmdir_heads(ht[1], ht[2], base,
                              rmdir(os_path_join(base, relative_path), tree).t)]
    IN  /\ removed.calls < MaxRemovedirs
        /\ tree' = res.t
        /\ removed' = [relative_path |-> relative_path, base |-> base,
                       raised |-> res.raised, calls |-> removed.calls + 1]
        /\ UNCHANGED <<import, api, amdsec, sharded>>

\* ------------------------------------------------------- specification
import_aip(r) ==
    \/ confirm_aip_exists(r)
    \/ decompress_aip(r)
    \/ validate(r)
    \/ get_aip_mets_path(r)
    \/ check_if_aip_already_exists(r)
    \/ raw_input(r)
    \/ user_response(r)
    \/ get_aip_storage_location(r)
    \/ Package(r)
    \/ mkdir(r)
    \/ copy_rsync(r)
    \/ fix_ownership(r)
    \/ save(r)
    \/ delete(r)
    \/ retry(r)

Next == \E r \in Runs : handle(r) \/ import_aip(r)

Spec == InitImport /\ [][Next]_vars

\* The package API alone, no import running.
InitApi ==
    /\ ApiIdle
    /\ UtilsIdle
    /\ packages = {} /\ files = {} /\ dirs = {}
    /\ frame = [r \in Runs |-> NoFrame]
    /\ n_save = [r \in Runs |-> 0]
    /\ report = [r \in Runs |-> NoReport]

NextApi ==
    \E p \in TieredPackages :
       \/ download(p)
       \/ extract_file(p)
       \/ backend_recalls(p)
       \/ backend_fails(p)
       \/ backend_recovers(p)
       \/ backend_evicts(p)

SpecApi == InitApi /\ [][NextApi]_vars

\* No import runs and no request is made.
ImportIdle ==
    /\ packages = {} /\ files = {} /\ dirs = {}
    /\ frame = [r \in Runs |-> NoFrame]
    /\ n_save = [r \in Runs |-> 0]
    /\ report = [r \in Runs |-> NoReport]

\* mets_add_event called again and again on an amdSec that starts empty.
InitMets ==
    /\ ImportIdle /\ ApiIdle
    /\ amdsec = <<>>
    /\ sharded = NotSharded /\ tree = {} /\ removed = NotRemoved

NextMets ==
    \E event_type \in EventTypes, event_uuid \in EventUuids :
       mets_add_event(event_type, event_uuid)

SpecMets == InitMets /\ [][NextMets]_vars

\* uuid_to_path applied to two identifiers.
InitShard ==
    /\ ImportIdle /\ ApiIdle
    /\ sharded \in { [NotSharded EXCEPT !.X = x, !.Y = y] :
                      x \in Identifiers, y \in Identifiers }
    /\ amdsec = <<>> /\ tree = {} /\ removed = NotRemoved

SpecShard == InitShard /\ [][shard]_vars

\* removedirs called on a tree.
InitRemovedirs ==
    /\ ImportIdle /\ ApiIdle
    /\ tree \in Trees
    /\ removed = NotRemoved
    /\ amdsec = <<>> /\ sharded = NotSharded

NextRemovedirs ==
    \E relative_path \in RelativePaths, base \in Bases :
       removedirs(relative_path, base)

SpecRemovedirs == InitRemovedirs /\ [][NextRemovedirs]_vars

\* ---------------------------------------------------------------- claims
\* the run that takes the step
Stepped(r) == frame'[r] # frame[r]

SaveSteps == {"save", "delete", "retry"}

\* the steps of import_aip before location resolution
PrefixSteps ==
    {"idle", "confirm_aip_exists", "decompress_aip", "validate",
     "get_aip_mets_path", "check_if_aip_already_exists", "raw_input",
     "user_response"}

\* C1: the Package record is saved only after the byte transfer has
\* completed: only the save steps change the record store, a run enters
\* them only from fix_ownership, which it enters only from a copy_rsync that
\* left every file of the tree at the destination; so a run that fails in
\* any earlier step has written no record.
C1_RecordSavedLast ==
    [][\A r \in Runs : Stepped(r) =>
          /\ frame[r].pc \notin SaveSteps => packages' = packages
          /\ frame'[r].pc = "save" => frame[r].pc = "fix_ownership"
          /\ frame'[r].pc = "delete" => frame[r].pc = "save"
          /\ frame'[r].pc = "retry" => frame[r].pc = "delete"
          /\ frame'[r].pc = "fix_ownership" =>
                /\ frame[r].pc = "copy_rsync"
                /\ \A n \in TreeFiles : \E f \in files' :
                      /\ f.gen = r
                      /\ f.path = join(join(
                            LocationByUuid(frame[r].aip_storage_location).full_path,
                            frame[r].aip_model_inst.current_path), n)
      ]_vars

\* C1 witness: a run failed in the copy and the store holds the record it
\* held before and no record of the run.
C1_Witness ==
    \E r \in Runs :
       /\ report[r].status = "failure" /\ report[r].step = "copy_rsync"
       /\ packages \in InitialPackages /\ packages # {}

\* the answers that are 'y' or 'yes' up to case
ConfirmingAnswers ==
    { <<"y">>, <<"Y">>,
      <<"y","e","s">>, <<"Y","e","s">>, <<"y","E","s">>, <<"y","e","S">>,
      <<"Y","E","s">>, <<"Y","e","S">>, <<"y","E","S">>, <<"Y","E","S">> }

\* C2: an import of an existing UUID that is answered with anything but
\* y or yes (in any case) fails with ImportAIPException, and no step of the
\* run up to there changes the record store, the files or the directories.
C2_UnconfirmedImportChangesNothing ==
    [][\A r \in Runs : Stepped(r) /\ frame[r].pc \in PrefixSteps =>
          /\ UNCHANGED <<packages, files, dirs>>
          /\ (frame[r].pc = "user_response"
                /\ frame[r].user_response \notin ConfirmingAnswers) =>
                /\ frame'[r].pc = "failed"
                /\ report'[r] = [status |-> "failure",
                                 exc |-> "ImportAIPException",
                                 step |-> "check_if_aip_already_exists"]
      ]_vars

\* C2 witness: a run was refused at the prompt and the stored package and
\* its files are there.
C2_Witness ==
    \E r \in Runs : \E p \in packages :
       /\ report[r].step = "check_if_aip_already_exists"
       /\ p.pk = 0 /\ FilesOf(p, files) = StoredFiles(p)

\* C3 as claimed: once a run has confirmed the import of an existing UUID,
\* the prior record (pk 0) of that UUID and bytes copied by the run never
\* lie side by side.
C3_PriorRecordDeletedAtCheck ==
    \A r \in Runs : \A p \in packages :
       (frame[r].prompted /\ p.pk = 0 /\ p.uuid = frame[r].aip_uuid)
          => ~ \E f \in files : f.gen = r

\* C3 amended: a record leaves the store only in the delete step of
\* save_aip_model_instance of a run importing the same UUID, after that
\* run's first save (and so after its copy); the duplicate check and the
\* prompt leave the store as it is.
C3_PriorRecordDeletedAtSave ==
    [][\A p \in packages : p \notin packages' =>
          \E r \in Runs :
             /\ Stepped(r)
             /\ frame[r].pc = "delete" /\ n_save[r] = 1
             /\ frame[r].aip_model_inst.uuid = p.uuid
             /\ \A q \in packages' : q.uuid # p.uuid
      ]_vars

\* C3 witness: a confirmed run is about to delete the prior record, with
\* its own copy on disk.
C3_Witness ==
    \E r \in Runs : \E p \in packages :
       /\ frame[r].pc = "delete" /\ frame[r].prompted
       /\ p.pk = 0 /\ p.uuid = frame[r].aip_uuid
       /\ \E f \in files : f.gen = r

\* the packages that may have been stored before any run
StoredBefore == UNION InitialPackages

\* C4 as claimed: when a confirmed re-import succeeds, no file of the old
\* copy (gen 0) is left under the old record's path.
C4_NoResidualFiles ==
    [][\A r \in Runs :
          (Stepped(r) /\ frame'[r].pc = "done" /\ frame[r].prompted) =>
             \A old \in StoredBefore :
                old.uuid = frame[r].aip_uuid =>
                   \A f \in FilesOf(old, files') : f.gen # 0
      ]_vars

\* C5 as claimed: a run removes a record saved by another run only if its
\* caller confirmed the replacement at the prompt.
C5_FirstToPersistWins ==
    [][\A r \in Runs :
          (Stepped(r) /\ \E p \in packages : p.pk \in Runs /\ p \notin packages')
             => frame[r].prompted
      ]_vars

\* C6: save() is called at most twice; after a conflict on the first call
\* every record of the UUID is deleted and the save retried; a conflict on
\* the retry propagates as IntegrityError; and when the function returns,
\* the one record of the UUID is the instance the run built.
C6_SaveRetriedOnce ==
    [][\A r \in Runs : Stepped(r) =>
          /\ n_save'[r] <= 2
          /\ frame[r].pc = "save" =>
                /\ n_save'[r] = 1
                /\ frame'[r].pc \in {"done", "delete"}
                /\ frame'[r].pc = "delete" <=>
                      \E p \in packages : p.uuid = frame[r].aip_model_inst.uuid
          /\ frame[r].pc = "delete" =>
                /\ frame'[r].pc = "retry"
                /\ \A p \in packages' : p.uuid # frame[r].aip_model_inst.uuid
                /\ \A p \in packages :
                      p.uuid # frame[r].aip_model_inst.uuid => p \in packages'
          /\ frame[r].pc = "retry" =>
                /\ n_save'[r] = 2
                /\ frame'[r].pc \in {"done", "crashed"}
                /\ frame'[r].pc = "crashed" =>
                      /\ report'[r].exc = "IntegrityError"
                      /\ packages' = packages
          /\ frame'[r].pc = "done" =>
                { p \in packages' : p.uuid = frame[r].aip_model_inst.uuid }
                   = { frame[r].aip_model_inst }
      ]_vars

\* C6 witness: a run returned from the retried save with its record stored.
C6_Witness ==
    \E r \in Runs :
       /\ report[r].status = "success" /\ n_save[r] = 2
       /\ \E p \in packages : p.pk = r

\* C7 as claimed, in the case the claim singles out: when rsync fails,
\* every file and directory that lay at or below the directory derived from
\* the UUID when placement began is still there, as it was.
C7_PlacementAtomic ==
    [][\A r \in Runs :
          (Stepped(r) /\ frame[r].pc = "copy_rsync" /\ frame'[r].pc = "failed") =>
             \A e \in frame[r].home_before : e \in files' \cup dirs'
      ]_vars

\* C9 as claimed: for the identifier given and the Settings rows read,
\* get_aip_storage_location returns the Location of that uuid (of the
\* setting's value for the default identifier), or, there being none, fails
\* with ImportAIPException, nothing copied or saved.
C9_LocationResolved ==
    [][\A r \in Runs :
          (Stepped(r) /\ frame[r].pc = "get_aip_storage_location") =>
             \E arg \in LocationArgs, rows \in SettingsStates :
                LET named == IF arg = DEFAULT_AS_LOCATION
                             THEN { s.value : s \in rows }
                             ELSE { arg }
                    found == { l \in Locations : l.uuid \in named }
                IN  IF found # {}
                    THEN /\ frame'[r].pc = "Package"
                         /\ frame'[r].aip_storage_location \in named
                    ELSE /\ frame'[r].pc = "failed"
                         /\ report'[r].exc = "ImportAIPException"
                         /\ UNCHANGED <<packages, files, dirs>>
      ]_vars

\* C10 as claimed: a run ends by printing the success message, its record
\* saved, or by printing the failure message of an ImportAIPException; no
\* other exception leaves handle.
C10_EveryFailureReported ==
    [][\A r \in Runs :
          (Stepped(r) /\ frame'[r].pc \in {"done", "failed", "crashed"}) =>
             \/ /\ report'[r].status = "success"
                /\ frame[r].aip_model_inst \in packages'
             \/ /\ report'[r].status = "failure"
                /\ report'[r].exc = "ImportAIPException"
      ]_vars

\* C8: a download or extract_file request for a tiered package is answered
\* by what the backend holds: 200 with a body for local content, 202 with
\* error=false for content on tape only, 502 with error=true for a backend
\* error, and by nothing else.
C8_ThreeOutcomes ==
    [][\A p \in TieredPackages :
          (response' # response /\ response'.uuid = p) =>
             /\ response'.endpoint \in Endpoints
             /\ tiered[p] = "local" <=>
                   (response'.status_code = 200 /\ response'.body
                      /\ ~response'.error)
             /\ tiered[p] = "tape" <=>
                   (response'.status_code = 202 /\ ~response'.error
                      /\ ~response'.body)
             /\ tiered[p] = "error" <=>
                   (response'.status_code = 502 /\ response'.error
                      /\ ~response'.body)
      ]_vars

\* C8 witness: after a 202 for one package, a 502 was returned for a
\* package whose recall had been pending.
C8_Witness ==
    \E p \in TieredPackages :
       /\ response.uuid = p /\ response.status_code = 502
       /\ n_recall[p] > 0 /\ tiered[p] = "error"

\* the children of an amdSec that are storage-service agents with the given
\* identifier type and value
AgentEntries(xml, agent_type, agent_value) ==
    { i \in DOMAIN xml :
         /\ xml[i].MDTYPE = "PREMIS:AGENT"
         /\ xml[i].xmlData.agentIdentifier.agentIdentifierType = agent_type
         /\ xml[i].xmlData.agentIdentifier.agentIdentifierValue = agent_value }

\* C11 as claimed: after any number of mets_add_event calls on an amdSec
\* that had no agent, the amdSec holds at most one storage-service agent
\* entry with a given identifier type and value.
C11_OneAgentEntry ==
    Cardinality(AgentEntries(amdsec, "storage service",
                             storage_service_agent)) <= 1

\* C20: each mets_add_event call only appends to the amdSec (the children
\* it had are still there, unchanged and in the same order), and the ID
\* attributes of all its children are pairwise distinct.
C20_IdsDistinctAppendOnly ==
    [][/\ Len(amdsec') > Len(amdsec)
       /\ SubSeq(amdsec', 1, Len(amdsec)) = amdsec
       /\ \A i, j \in DOMAIN amdsec' :
             amdsec'[i].ID = amdsec'[j].ID => i = j
      ]_vars

\* C20 witness: an amdSec of several events whose last children have IDs
\* of two digits.
C20_Witness ==
    /\ Cardinality(Events(amdsec)) >= 3
    /\ \E i \in DOMAIN amdsec : Len(amdsec[i].ID) = 13

\* C12 as claimed: two identifiers have the same path exactly when they
\* are the same string.
C12_CollisionFree ==
    sharded.path_X # <<>> =>
       (sharded.path_X = sharded.path_Y <=> sharded.X = sharded.Y)

\* an identifier's characters other than hyphens
Alphanumerics(s) == SelectSeq(s, LAMBDA c : c # "-")

\* canonical form: 36 characters, hyphens at 9, 14, 19 and 24 only
Canonical(s) ==
    /\ Len(s) = 36
    /\ \A i \in 1..36 : s[i] = "-" <=> i \in {9, 14, 19, 24}

\* C12 amended: two identifiers have the same path exactly when they have
\* the same characters once the hyphens are left out; so two UUIDs in
\* canonical form have the same path exactly when they are the same.
C12_CollisionFreeUpToHyphens ==
    sharded.path_X # <<>> =>
       /\ sharded.path_X = sharded.path_Y <=>
             Alphanumerics(sharded.X) = Alphanumerics(sharded.Y)
       /\ (Canonical(sharded.X) /\ Canonical(sharded.Y)) =>
             (sharded.path_X = sharded.path_Y <=> sharded.X = sharded.Y)

\* C12 witness: two canonical UUIDs that differ in one character got
\* different paths.
C12_Witness ==
    /\ sharded.X = UUID_1 /\ sharded.Y = UUID_3
    /\ sharded.path_X # <<>> /\ sharded.path_X # sharded.path_Y

\* C18 as claimed: a call of removedirs with a base removes only
\* directories, only on the chain from base/relative_path up to but
\* excluding base, each empty when it goes, and none above a directory of
\* the chain that stays.
C18_OnlyTheChainBelowBase ==
    [][(removed' # removed /\ removed'.base # <<>>) =>
          LET leaf == rstrip_sep(removed'.base \o <<"/">>
                                   \o removed'.relative_path)
              chain == Ancestors(leaf, removed'.base)
              gone == tree \ tree'
          IN  /\ tree' \subseteq tree
              /\ \A e \in gone : e.kind = "dir" /\ e.path \in chain
              /\ \A e \in gone : \A c \in tree :
                    IsUnder(c.path, e.path) => c \in gone
              /\ \A e \in gone : \A a \in chain \ {leaf} :
                    IsUnder(a, e.path) => \E g \in gone : g.path = a
      ]_vars

\* uuid_to_path of the two UUIDs, written out
ShardedPath(uuid) ==
    IF uuid = UUID_1
    THEN <<"e","0","a","4","/","1","9","3","4","/","c","1","d","7","/","4","5","b","a","/","9","a","9","5","/","a","7","5","3","/","1","c","0","6","/","3","e","d","1">>
    ELSE <<"6","a","e","b","/","d","b","2","4","/","1","b","6","b","/","4","1","a","b","/","b","4","a","3","/","d","f","9","a","/","7","3","7","2","/","6","a","3","4">>

\* C13 as claimed: when a run succeeds, its record is in the store with
\* type AIP, status UPLOADED, the resolved location and the path made of the
\* UUID's 4-character segments and the base name of the tree, and every
\* file of the tree is at the location's full path joined with that path.
C13_RecordOfSuccessfulImport ==
    [][\A r \in Runs :
          (Stepped(r) /\ frame'[r].pc = "done") =>
             LET inst == frame[r].aip_model_inst
                 home == LocationByUuid(frame[r].aip_storage_location).full_path
             IN  /\ { p \in packages' : p.uuid = frame[r].aip_uuid } = {inst}
                 /\ inst.package_type = "AIP"
                 /\ inst.status = "UPLOADED"
                 /\ inst.current_location = frame[r].aip_storage_location
                 /\ inst.current_path =
                       ShardedPath(frame[r].aip_uuid) \o <<"/">>
                          \o frame[r].aip_path.base
                 /\ \A n \in TreeFiles : \E f \in files' :
                       f.path = home \o <<"/">> \o inst.current_path
                                     \o <<"/">> \o n
      ]_vars

\* C14 as claimed: when fix_ownership has run, every directory and file of
\* the copied tree has the service account's user id as owner and its
\* group id as group.
C14_OwnedByServiceAccount ==
    [][\A r \in Runs :
          (Stepped(r) /\ frame[r].pc = "fix_ownership") =>
             \A e \in At(join(LocationByUuid(frame[r].aip_storage_location).full_path,
                              frame[r].aip_model_inst.current_path),
                         files' \cup dirs') :
                /\ e.uid = ServiceAccount.pw_uid
                /\ e.gid = ServiceAccount.pw_gid
      ]_vars

\* C15 as claimed: the duplicate check asks for confirmation exactly when
\* a record of the UUID exists that is not DELETED.
C15_DeletedRecordsIgnored ==
    [][\A r \in Runs :
          (Stepped(r) /\ frame[r].pc = "check_if_aip_already_exists") =>
             (frame'[r].pc = "raw_input" <=>
                \E p \in packages :
                   p.uuid = frame[r].aip_uuid /\ p.status # "DELETED")
      ]_vars

C19_SourceUntouched ==
    [][\A r \in Runs :
          (Stepped(r) /\ frame[r].aip_path.path # <<>>) =>
             At(frame[r].aip_path.path, files' \cup dirs')
                = At(frame[r].aip_path.path, files \cup dirs)
      ]_vars

====
